---- MODULE Spec2Model ----
(***************************************************************************)
(* Model of egg/validate_egg_structure.py: the EggValidator class, its     *)
(* eight checks, print_report, run_all_validations and main.               *)
(*                                                                         *)
(* Strings the code builds with f-strings are sequences of text chunks:    *)
(* f"... {dir_path}" is <<"... ", dir_path>>.  The glyphs that start an    *)
(* entry are written [ok] (check mark), [x] (cross) and [!] (warning).     *)
(***************************************************************************)
EXTENDS Naturals, Sequences, FiniteSets

VARIABLES
    present,        \* filesystem: the paths below the root that exist
    cargo_content,  \* filesystem: member substrings found in the root Cargo.toml
    ci_content,     \* filesystem: "job:" substrings found in ci.yml
    unreadable,     \* filesystem: existing paths on which open()/read() raises
    errors,         \* EggValidator.errors
    warnings,       \* EggValidator.warnings
    successes,      \* EggValidator.successes
    pc,             \* position of the caller (main, or a client of the object)
    idx,            \* run_all_validations: 1-based index of the next validation
    called,         \* the checks called since construction, in call order
    op,             \* the method the caller called last ("none" before any)
    ret,            \* value returned by the latest call ("none" before any)
    raised,         \* TRUE when the latest call left by an exception
    before,         \* the three lists as they were when the latest call began
    verdict,        \* verdict line printed by the latest print_report
    build,          \* outcome of the latest subprocess.run of cargo
    exit_code,      \* process exit status ("none" while running)
    runs,           \* number of EggValidator objects constructed so far
    first,          \* lists and build outcome of the run before the latest
    calls           \* number of calls a client made on the object

vars == <<present, cargo_content, ci_content, unreadable, errors, warnings,
          successes, pc, idx, called, op, ret, raised, before, verdict, build,
          exit_code, runs, first, calls>>

fs_vars == <<present, cargo_content, ci_content, unreadable>>

-----------------------------------------------------------------------------
(* Bounds *)

\* main runs on trees that differ from the complete tree in at most this many ways
MaxDefects == 2

\* the two-run specification uses trees with at most this many defects
MaxRerunDefects == 1

\* the caller of the two-run specification constructs at most this many validators
MaxRuns == 2

\* a client of one EggValidator object makes at most this many calls
MaxCalls == 2

-----------------------------------------------------------------------------
(* Program constants *)

required_dirs ==
    << "crates/limit-core", "crates/limit-storage", "crates/limit-orchestration",
       "crates/limit-agents", "services/api", "examples", "tests",
       ".github/workflows" >>

crates == << "limit-core", "limit-storage", "limit-orchestration", "limit-agents" >>

required_examples ==
    << "basic_session.rs", "agent_benchmark.rs", "federated_orchestration.rs" >>

required_members ==
    << "crates/limit-core", "crates/limit-storage", "crates/limit-orchestration",
       "crates/limit-agents", "services/api" >>

required_jobs == << "test", "fmt", "clippy", "build" >>

docs == << "README.md", "QUICK_START.md", "IMPLEMENTATION_COMPLETE.md",
           "FEDERATED_ARCHITECTURE.md" >>

validations ==
    << "validate_structure", "validate_crate_files", "validate_examples",
       "validate_workspace_config", "validate_docker_config",
       "validate_ci_workflow", "validate_documentation", "check_cargo_build" >>

\* result.stderr[:200]
StderrLimit == 200

Range(s) == { s[i] : i \in DOMAIN s }

-----------------------------------------------------------------------------
(* Paths: pathlib's "/" joins, as tables over the names the code joins *)

Root == "."

\* self.egg_root / "crates" / crate / "Cargo.toml"
CrateCargoToml(crate) ==
    CASE crate = "limit-core"          -> "crates/limit-core/Cargo.toml"
      [] crate = "limit-storage"       -> "crates/limit-storage/Cargo.toml"
      [] crate = "limit-orchestration" -> "crates/limit-orchestration/Cargo.toml"
      [] crate = "limit-agents"        -> "crates/limit-agents/Cargo.toml"

\* self.egg_root / "crates" / crate / "src" / "lib.rs"
CrateLibRs(crate) ==
    CASE crate = "limit-core"          -> "crates/limit-core/src/lib.rs"
      [] crate = "limit-storage"       -> "crates/limit-storage/src/lib.rs"
      [] crate = "limit-orchestration" -> "crates/limit-orchestration/src/lib.rs"
      [] crate = "limit-agents"        -> "crates/limit-agents/src/lib.rs"

\* self.egg_root / "examples" / example
ExamplePath(example) ==
    CASE example = "basic_session.rs"           -> "examples/basic_session.rs"
      [] example = "agent_benchmark.rs"         -> "examples/agent_benchmark.rs"
      [] example = "federated_orchestration.rs" -> "examples/federated_orchestration.rs"

\* f"{job}:"
JobKey(job) ==
    CASE job = "test"   -> "test:"
      [] job = "fmt"    -> "fmt:"
      [] job = "clippy" -> "clippy:"
      [] job = "build"  -> "build:"

RootCargoToml == "Cargo.toml"
CiWorkflow    == ".github/workflows/ci.yml"

CrateDirs == { "crates/limit-core", "crates/limit-storage",
               "crates/limit-orchestration", "crates/limit-agents" }

\* (directory, entry) pairs of the tree the checks look at
TreeEdges ==
    { <<Root, p>> : p \in { "crates", "services", "examples", "tests", ".github",
                            "Cargo.toml", "Dockerfile", "docker-compose.yml",
                            ".dockerignore" } \cup Range(docs) }
    \cup { <<"crates", d>> : d \in CrateDirs }
    \cup { <<"services", "services/api">>, <<".github", ".github/workflows">>,
           <<".github/workflows", CiWorkflow>> }
    \cup { <<"examples", ExamplePath(e)>> : e \in Range(required_examples) }
    \cup { <<"crates/limit-core", "crates/limit-core/src">>,
           <<"crates/limit-storage", "crates/limit-storage/src">>,
           <<"crates/limit-orchestration", "crates/limit-orchestration/src">>,
           <<"crates/limit-agents", "crates/limit-agents/src">> }
    \cup { <<"crates/limit-core", CrateCargoToml("limit-core")>>,
           <<"crates/limit-storage", CrateCargoToml("limit-storage")>>,
           <<"crates/limit-orchestration", CrateCargoToml("limit-orchestration")>>,
           <<"crates/limit-agents", CrateCargoToml("limit-agents")>> }
    \cup { <<"crates/limit-core/src", CrateLibRs("limit-core")>>,
           <<"crates/limit-storage/src", CrateLibRs("limit-storage")>>,
           <<"crates/limit-orchestration/src", CrateLibRs("limit-orchestration")>>,
           <<"crates/limit-agents/src", CrateLibRs("limit-agents")>> }

Paths == {Root} \cup { e[2] : e \in TreeEdges }

Parent(p) == (CHOOSE e \in TreeEdges : e[2] = p)[1]

RECURSIVE AncestorsOrSelf(_)
AncestorsOrSelf(p) ==
    IF p = Root THEN {Root} ELSE {p} \cup AncestorsOrSelf(Parent(p))

\* every path with the directories above it
Ancestors == [ p \in Paths |-> AncestorsOrSelf(p) ]

\* Path.exists()
Exists(p) == p \in present

\* open(path).read() succeeds
Readable(p) == p \notin unreadable

-----------------------------------------------------------------------------
(* EggValidator: the three lists, as a record the checks transform *)

\* faulty variant: the lists are class attributes shared by all instances
SharedClassLists(old) == old

\* __init__: three fresh empty lists, whatever an earlier instance (old) holds
EggValidatorInit(old) == [ errors |-> <<>>, warnings |-> <<>>, successes |-> <<>> ]

NoValidator == [ errors |-> <<>>, warnings |-> <<>>, successes |-> <<>> ]

Lists(r) == [ errors |-> r.errors, warnings |-> r.warnings, successes |-> r.successes ]

add_success(v, entry) == [ v EXCEPT !.successes = Append(@, entry) ]
add_warning(v, entry) == [ v EXCEPT !.warnings  = Append(@, entry) ]
add_error(v, entry)   == [ v EXCEPT !.errors    = Append(@, entry) ]

\* "return value": the lists after the call and the value returned
Return(v, value) ==
    [ errors |-> v.errors, warnings |-> v.warnings, successes |-> v.successes,
      ret |-> value, raised |-> FALSE ]

\* return len(self.errors) == 0
ReturnNoErrors(v) == Return(v, Len(v.errors) = 0)

\* the call is left by an exception, with the lists as they are at that point
Raise(v) ==
    [ errors |-> v.errors, warnings |-> v.warnings, successes |-> v.successes,
      ret |-> "none", raised |-> TRUE ]

(* validate_structure *)

\* faulty variant: a missing directory is only a warning
check_dir_as_warning(v, dir_path) ==
    IF Exists(dir_path)
    THEN add_success(v, <<"[ok] Directory exists: ", dir_path>>)
    ELSE add_warning(v, <<"[x] Missing directory: ", dir_path>>)

check_dir(v, dir_path) ==
    IF Exists(dir_path)
    THEN add_success(v, <<"[ok] Directory exists: ", dir_path>>)
    ELSE add_error(v, <<"[x] Missing directory: ", dir_path>>)

\* for dir_path in required_dirs, from element i on
RECURSIVE for_dir_path(_, _)
for_dir_path(v, i) ==
    IF i > Len(required_dirs) THEN v ELSE for_dir_path(check_dir(v, required_dirs[i]), i + 1)

validate_structure(v) == ReturnNoErrors(for_dir_path(v, 1))

(* validate_crate_files *)

\* the Cargo.toml check of one crate
check_crate_cargo_toml(v, crate) ==
    IF Exists(CrateCargoToml(crate))
    THEN add_success(v, <<"[ok] ", crate, "/Cargo.toml exists">>)
    ELSE add_error(v, <<"[x] ", crate, "/Cargo.toml missing">>)

\* the src/lib.rs check of one crate
check_crate_lib_rs(v, crate) ==
    IF Exists(CrateLibRs(crate))
    THEN add_success(v, <<"[ok] ", crate, "/src/lib.rs exists">>)
    ELSE add_error(v, <<"[x] ", crate, "/src/lib.rs missing">>)

check_crate(v, crate) == check_crate_lib_rs(check_crate_cargo_toml(v, crate), crate)

\* for crate in crates, from element i on
RECURSIVE for_crate(_, _)
for_crate(v, i) ==
    IF i > Len(crates) THEN v ELSE for_crate(check_crate(v, crates[i]), i + 1)

validate_crate_files(v) == ReturnNoErrors(for_crate(v, 1))

(* validate_examples *)

check_example(v, example) ==
    IF Exists(ExamplePath(example))
    THEN add_success(v, <<"[ok] Example exists: ", example>>)
    ELSE add_error(v, <<"[x] Missing example: ", example>>)

\* for example in required_examples, from element i on
RECURSIVE for_example(_, _)
for_example(v, i) ==
    IF i > Len(required_examples) THEN v ELSE for_example(check_example(v, required_examples[i]), i + 1)

validate_examples(v) == ReturnNoErrors(for_example(v, 1))

(* validate_workspace_config *)

\* member in content
check_member(v, member) ==
    IF member \in cargo_content
    THEN add_success(v, <<"[ok] Workspace member: ", member>>)
    ELSE add_error(v, <<"[x] Missing workspace member: ", member>>)

\* for member in required_members, from element i on
RECURSIVE for_member(_, _)
for_member(v, i) ==
    IF i > Len(required_members) THEN v ELSE for_member(check_member(v, required_members[i]), i + 1)

validate_workspace_config(v) ==
    IF ~Exists(RootCargoToml)
    THEN Return(add_error(v, <<"[x] Root Cargo.toml missing">>), FALSE)
    ELSE IF ~Readable(RootCargoToml)
    THEN Raise(v)
    ELSE ReturnNoErrors(for_member(v, 1))

(* validate_docker_config *)

\* faulty variant: a missing Docker file is an error
check_optional_file_as_error(v, name) ==
    IF Exists(name)
    THEN add_success(v, <<"[ok] ", name, " exists">>)
    ELSE add_error(v, <<"[!] ", name, " missing">>)

\* each of the three if/else blocks of validate_docker_config
check_optional_file(v, name) ==
    IF Exists(name)
    THEN add_success(v, <<"[ok] ", name, " exists">>)
    ELSE add_warning(v, <<"[!] ", name, " missing">>)

\* the three files validate_docker_config looks for, in its order
docker_files == << "Dockerfile", "docker-compose.yml", ".dockerignore" >>

\* the three if/else blocks in turn, from element i on
RECURSIVE for_docker_file(_, _)
for_docker_file(v, i) ==
    IF i > Len(docker_files) THEN v ELSE for_docker_file(check_optional_file(v, docker_files[i]), i + 1)

validate_docker_config(v) == Return(for_docker_file(v, 1), TRUE)

(* validate_ci_workflow *)

\* faulty variant: a missing CI job is an error
check_job_as_error(v, job) ==
    IF JobKey(job) \in ci_content
    THEN add_success(v, <<"[ok] CI job defined: ", job>>)
    ELSE add_error(v, <<"[!] CI job missing: ", job>>)

\* f"{job}:" in content
check_job(v, job) ==
    IF JobKey(job) \in ci_content
    THEN add_success(v, <<"[ok] CI job defined: ", job>>)
    ELSE add_warning(v, <<"[!] CI job missing: ", job>>)

\* for job in required_jobs, from element i on
RECURSIVE for_job(_, _)
for_job(v, i) ==
    IF i > Len(required_jobs) THEN v ELSE for_job(check_job(v, required_jobs[i]), i + 1)

validate_ci_workflow(v) ==
    IF Exists(CiWorkflow)
    THEN IF ~Readable(CiWorkflow)
         THEN Raise(add_success(v, <<"[ok] CI workflow exists">>))
         ELSE ReturnNoErrors(for_job(add_success(v, <<"[ok] CI workflow exists">>), 1))
    ELSE ReturnNoErrors(add_error(v, <<"[x] CI workflow missing">>))

(* validate_documentation *)

check_doc(v, doc) ==
    IF Exists(doc)
    THEN add_success(v, <<"[ok] Documentation: ", doc>>)
    ELSE add_warning(v, <<"[!] Missing documentation: ", doc>>)

\* for doc in docs, from element i on
RECURSIVE for_doc(_, _)
for_doc(v, i) ==
    IF i > Len(docs) THEN v ELSE for_doc(check_doc(v, docs[i]), i + 1)

validate_documentation(v) == Return(for_doc(v, 1), TRUE)

(* check_cargo_build *)

\* what subprocess.run(["cargo", "check", "--workspace"], timeout=60) can do:
\* return with exit code 0, return with another exit code and some stderr,
\* raise FileNotFoundError, raise TimeoutExpired, raise another Exception.
\* text is result.stderr (a sequence of characters) or <<str(e)>>.
Outcomes ==
    { [kind |-> "exit0",     text |-> <<>>],
      [kind |-> "nonzero",   text |-> <<>>],
      [kind |-> "nonzero",   text |-> <<"e", "r", "r">>],
      [kind |-> "notfound",  text |-> <<>>],
      [kind |-> "timeout",   text |-> <<>>],
      [kind |-> "exception", text |-> <<"Permission denied">>] }

NoBuild == [kind |-> "none", text |-> <<>>]

\* cwd=self.egg_root: with no such directory the call raises FileNotFoundError
Possible(o) == Exists(Root) \/ o.kind = "notfound"

\* s[:n]
Slice(s, n) == SubSeq(s, 1, IF Len(s) < n THEN Len(s) ELSE n)

\* faulty variant: a failed build is recorded as an error
check_cargo_build_failing(v, o) ==
    CASE o.kind = "exit0" ->
            Return(add_success(v, <<"[ok] Cargo check passed">>), TRUE)
      [] o.kind = "nonzero" ->
            Return(add_error(v, <<"[!] Cargo check failed: ">>
                                    \o Slice(o.text, StderrLimit)), FALSE)
      [] o.kind = "notfound" ->
            Return(add_warning(v, <<"[!] Cargo not found - skipping build check">>), TRUE)
      [] o.kind = "timeout" ->
            Return(add_warning(v, <<"[!] Cargo check timed out">>), TRUE)
      [] o.kind = "exception" ->
            Return(add_warning(v, <<"[!] Cargo check error: ">> \o o.text), TRUE)

check_cargo_build(v, o) ==
    CASE o.kind = "exit0" ->
            Return(add_success(v, <<"[ok] Cargo check passed">>), TRUE)
      [] o.kind = "nonzero" ->
            Return(add_warning(v, <<"[!] Cargo check failed: ">>
                                    \o Slice(o.text, StderrLimit)), FALSE)
      [] o.kind = "notfound" ->
            Return(add_warning(v, <<"[!] Cargo not found - skipping build check">>), TRUE)
      [] o.kind = "timeout" ->
            Return(add_warning(v, <<"[!] Cargo check timed out">>), TRUE)
      [] o.kind = "exception" ->
            Return(add_warning(v, <<"[!] Cargo check error: ">> \o o.text), TRUE)

(* print_report *)

\* the lists untouched, the value returned and the verdict line printed last
Report(v, value, line) ==
    [ errors |-> v.errors, warnings |-> v.warnings, successes |-> v.successes,
      ret |-> value, raised |-> FALSE, verdict |-> line ]

\* faulty variant: warnings fail the validation too
print_report_strict(v) ==
    IF Len(v.errors) > 0 \/ Len(v.warnings) > 0
    THEN Report(v, FALSE, "VALIDATION FAILED")
    ELSE Report(v, TRUE, "VALIDATION PASSED")

\* faulty variant: the lists are cleared once they have been printed
print_report_clearing(v) ==
    IF Len(v.errors) > 0
    THEN Report(NoValidator, FALSE, "VALIDATION FAILED")
    ELSE IF Len(v.warnings) > 0
    THEN Report(NoValidator, TRUE, "VALIDATION PASSED WITH WARNINGS")
    ELSE Report(NoValidator, TRUE, "VALIDATION PASSED")

print_report(v) ==
    IF Len(v.errors) > 0
    THEN Report(v, FALSE, "VALIDATION FAILED")
    ELSE IF Len(v.warnings) > 0
    THEN Report(v, TRUE, "VALIDATION PASSED WITH WARNINGS")
    ELSE Report(v, TRUE, "VALIDATION PASSED")

(* run_all_validations *)

\* validation(): the bound method of that name, called
Call(name, v, o) ==
    CASE name = "validate_structure"        -> validate_structure(v)
      [] name = "validate_crate_files"      -> validate_crate_files(v)
      [] name = "validate_examples"         -> validate_examples(v)
      [] name = "validate_workspace_config" -> validate_workspace_config(v)
      [] name = "validate_docker_config"    -> validate_docker_config(v)
      [] name = "validate_ci_workflow"      -> validate_ci_workflow(v)
      [] name = "validate_documentation"    -> validate_documentation(v)
      [] name = "check_cargo_build"         -> check_cargo_build(v, o)

\* faulty variant: the loop stops at the first validation that returns False
next_validation_until_failure(i, r) == IF r.ret = TRUE THEN i + 1 ELSE Len(validations) + 1

\* for validation in validations: the index after validation i returned r
\* (the returned value is dropped)
next_validation(i, r) == i + 1

\* what run_all_validations hands back: the lists, the returned value, the
\* verdict printed and the validations it called (log)
Finished(r, log) ==
    [ errors |-> r.errors, warnings |-> r.warnings, successes |-> r.successes,
      ret |-> r.ret, raised |-> FALSE, verdict |-> r.verdict, log |-> log ]

Aborted(r, log) ==
    [ errors |-> r.errors, warnings |-> r.warnings, successes |-> r.successes,
      ret |-> "none", raised |-> TRUE, verdict |-> "none", log |-> log ]

\* the loop from validation i on, then return self.print_report(); an
\* exception in a validation ends the call there
RECURSIVE run_from(_, _, _, _)
after_validation(i, r, o, log) ==
    IF r.raised
    THEN Aborted(r, log)
    ELSE run_from(next_validation(i, r), Lists(r), o, log)

run_from(i, v, o, log) ==
    IF i > Len(validations)
    THEN Finished(print_report(v), log)
    ELSE after_validation(i, Call(validations[i], v, o), o, Append(log, validations[i]))

run_all_validations(v, o) == run_from(1, v, o, <<>>)

(* main *)

\* faulty variant: the exit status ignores the result
exit_status_always_zero(success) == 0

\* sys.exit(0 if success else 1)
exit_status(success) == IF success THEN 0 ELSE 1

\* the status of a process ended by sys.exit(1) or by an uncaught exception
ExitFailure == 1

-----------------------------------------------------------------------------
(* The trees the validator is run on *)

\* the ways a tree can differ from the complete one: a path removed (with all
\* below it), a member substring absent from the root Cargo.toml, a "job:"
\* substring absent from ci.yml, a file that exists and cannot be read
Defects ==
    { <<"rm", p>> : p \in Paths }
    \cup { <<"omit", m>> : m \in Range(required_members) }
    \cup { <<"nojob", j>> : j \in Range(required_jobs) }
    \cup { <<"unreadable", f>> : f \in {RootCargoToml, CiWorkflow} }

RECURSIVE DefectSets(_)
DefectSets(k) ==
    IF k = 0 THEN {{}}
    ELSE LET S == DefectSets(k - 1)
         IN  S \cup { T \cup {d} : T \in S, d \in Defects }

\* the trees with at most one defect: a client of one object is given these
SingleDefects == { {} } \cup { {d} : d \in Defects }

TreePresent(D) ==
    { p \in Paths : \A q \in Ancestors[p] : <<"rm", q>> \notin D }

TreeUnreadable(D, there) ==
    { f \in there : <<"unreadable", f>> \in D }

TreeCargoContent(D, there) ==
    IF RootCargoToml \in there /\ <<"unreadable", RootCargoToml>> \notin D
    THEN { m \in Range(required_members) : <<"omit", m>> \notin D }
    ELSE {}

TreeCiContent(D, there) ==
    IF CiWorkflow \in there /\ <<"unreadable", CiWorkflow>> \notin D
    THEN { JobKey(j) : j \in { j \in Range(required_jobs) : <<"nojob", j>> \notin D } }
    ELSE {}

InitTree(Ds) ==
    \E D \in Ds :
        LET there == TreePresent(D) IN
        /\ present = there
        /\ unreadable = TreeUnreadable(D, there)
        /\ cargo_content = TreeCargoContent(D, there)
        /\ ci_content = TreeCiContent(D, there)

NoFirst == [ valid |-> FALSE, lists |-> NoValidator, build |-> NoBuild ]

InitRest(position, started) ==
    /\ errors = <<>>
    /\ warnings = <<>>
    /\ successes = <<>>
    /\ pc = position
    /\ idx = 1
    /\ called = <<>>
    /\ op = "none"
    /\ ret = "none"
    /\ raised = FALSE
    /\ before = NoValidator
    /\ verdict = "none"
    /\ build = NoBuild
    /\ exit_code = "none"
    /\ runs = started
    /\ first = NoFirst
    /\ calls = 0

Self == [ errors |-> errors, warnings |-> warnings, successes |-> successes ]

SetSelf(r) ==
    /\ errors' = r.errors
    /\ warnings' = r.warnings
    /\ successes' = r.successes

\* the outcomes the environment can give the call of that name
OutcomesFor(name) ==
    IF name = "check_cargo_build" THEN { o \in Outcomes : Possible(o) } ELSE { NoBuild }

-----------------------------------------------------------------------------
(* main: one process, from its start to its exit *)

Init == InitTree(DefectSets(MaxDefects)) /\ InitRest("main", 1)

\* main up to the call of run_all_validations
MainStart ==
    /\ pc = "main"
    /\ IF ~Exists(Root)
       THEN /\ pc' = "exited"
            /\ exit_code' = ExitFailure
            /\ UNCHANGED <<errors, warnings, successes>>
       ELSE /\ pc' = "validations"
            /\ SetSelf(EggValidatorInit(Self))
            /\ UNCHANGED exit_code
    /\ idx' = 1
    /\ UNCHANGED <<fs_vars, called, op, ret, raised, before, verdict, build, runs,
                   first, calls>>

\* the caller sees the lists as the call left them, and its result
Returned(r) ==
    /\ SetSelf(r)
    /\ ret' = r.ret
    /\ raised' = r.raised

\* an exception in a validation is caught nowhere: the process ends with a
\* traceback; otherwise the loop goes on
Unwind(r) ==
    IF r.raised
    THEN pc' = "exited" /\ exit_code' = ExitFailure /\ idx' = idx
    ELSE pc' = pc /\ exit_code' = exit_code /\ idx' = next_validation(idx, r)

\* one iteration of "for validation in validations: validation()"; an
\* exception leaves run_all_validations and main, and the process ends
RunValidation ==
    /\ pc = "validations"
    /\ idx <= Len(validations)
    /\ \E o \in OutcomesFor(validations[idx]) :
        /\ Returned(Call(validations[idx], Self, o))
        /\ Unwind(Call(validations[idx], Self, o))
        /\ build' = IF validations[idx] = "check_cargo_build" THEN o ELSE build
    /\ before' = Self
    /\ called' = Append(called, validations[idx])
    /\ op' = validations[idx]
    /\ UNCHANGED <<fs_vars, verdict, runs, first, calls>>

\* return self.print_report()
PrintReport ==
    /\ pc = "validations"
    /\ idx > Len(validations)
    /\ Returned(print_report(Self))
    /\ verdict' = print_report(Self).verdict
    /\ before' = Self
    /\ called' = Append(called, "print_report")
    /\ op' = "print_report"
    /\ pc' = "returned"
    /\ UNCHANGED <<fs_vars, idx, build, exit_code, runs, first, calls>>

\* sys.exit(0 if success else 1)
MainExit ==
    /\ pc = "returned"
    /\ exit_code' = exit_status(ret)
    /\ pc' = "exited"
    /\ UNCHANGED <<fs_vars, errors, warnings, successes, idx, called, op, ret, raised,
                   before, verdict, build, runs, first, calls>>

Next == MainStart \/ RunValidation \/ PrintReport \/ MainExit

Spec == Init /\ [][Next]_vars

-----------------------------------------------------------------------------
(* Two runs: a caller that, like main, constructs an EggValidator and calls *)
(* run_all_validations on it, and does so again on the unchanged tree       *)

InitRerun == InitTree(DefectSets(MaxRerunDefects)) /\ InitRest("caller", 0)

\* the caller after run_all_validations handed back r under build outcome o:
\* the calls it made follow those made so far; the verdict and the build
\* outcome are the former ones when the call ended before setting them
RanAll(r, o, called_so_far, former_verdict, former_build) ==
    /\ Returned(r)
    /\ verdict' = IF r.raised THEN former_verdict ELSE r.verdict
    /\ called' = IF r.raised THEN called_so_far \o r.log
                 ELSE called_so_far \o Append(r.log, "print_report")
    /\ build' = IF "check_cargo_build" \in Range(r.log) THEN o ELSE former_build

\* validator = EggValidator(str(egg_root))
Construct ==
    /\ pc = "caller"
    /\ runs < MaxRuns
    /\ first' = IF runs > 0
                THEN [ valid |-> TRUE, lists |-> Self, build |-> build ]
                ELSE first
    /\ SetSelf(EggValidatorInit(Self))
    /\ runs' = runs + 1
    /\ pc' = "constructed"
    /\ called' = <<>>
    /\ op' = "none"
    /\ ret' = "none"
    /\ raised' = FALSE
    /\ verdict' = "none"
    /\ build' = NoBuild
    /\ UNCHANGED <<fs_vars, idx, before, exit_code, calls>>

\* success = validator.run_all_validations(), as one call
RunAll ==
    /\ pc = "constructed"
    /\ \E o \in OutcomesFor("check_cargo_build") :
        RanAll(run_all_validations(Self, o), o, <<>>, "none", NoBuild)
    /\ op' = "run_all_validations"
    /\ before' = Self
    /\ pc' = "caller"
    /\ UNCHANGED <<fs_vars, idx, exit_code, runs, first, calls>>

NextRerun == Construct \/ RunAll

SpecRerun == InitRerun /\ [][NextRerun]_vars

-----------------------------------------------------------------------------
(* One object: a client that holds one EggValidator and calls its methods   *)
(* in any order, going on after a call that raised                          *)

InitObject == InitTree(SingleDefects) /\ InitRest("object", 1)

CallCheck ==
    /\ pc = "object"
    /\ calls < MaxCalls
    /\ \E name \in Range(validations) : \E o \in OutcomesFor(name) :
        /\ Returned(Call(name, Self, o))
        /\ called' = Append(called, name)
        /\ op' = name
        /\ build' = IF name = "check_cargo_build" THEN o ELSE build
    /\ before' = Self
    /\ calls' = calls + 1
    /\ UNCHANGED <<fs_vars, pc, idx, verdict, exit_code, runs, first>>

CallPrintReport ==
    /\ pc = "object"
    /\ calls < MaxCalls
    /\ Returned(print_report(Self))
    /\ verdict' = print_report(Self).verdict
    /\ called' = Append(called, "print_report")
    /\ op' = "print_report"
    /\ before' = Self
    /\ calls' = calls + 1
    /\ UNCHANGED <<fs_vars, pc, idx, build, exit_code, runs, first>>

CallRunAll ==
    /\ pc = "object"
    /\ calls < MaxCalls
    /\ \E o \in OutcomesFor("check_cargo_build") :
        RanAll(run_all_validations(Self, o), o, called, verdict, build)
    /\ op' = "run_all_validations"
    /\ before' = Self
    /\ calls' = calls + 1
    /\ UNCHANGED <<fs_vars, pc, idx, exit_code, runs, first>>

NextObject == CallCheck \/ CallPrintReport \/ CallRunAll

SpecObject == InitObject /\ [][NextObject]_vars

-----------------------------------------------------------------------------
(* Vocabulary of the properties *)

IsPrefix(s, t) == Len(s) <= Len(t) /\ SubSeq(t, 1, Len(s)) = s

LastCall == op

\* the eight checks, then the report
FullRun == validations \o <<"print_report">>

\* all eight checks ran and print_report returned
RanToReport == called = FullRun

OptionalFiles == Range(docker_files)

AllRequiredPresent ==
    /\ \A d \in Range(required_dirs) : Exists(d)
    /\ \A c \in Range(crates) : Exists(CrateCargoToml(c)) /\ Exists(CrateLibRs(c))
    /\ \A e \in Range(required_examples) : Exists(ExamplePath(e))
    /\ Exists(RootCargoToml)
    /\ \A m \in Range(required_members) : m \in cargo_content
    /\ Exists(CiWorkflow)

SomeOptionalMissing ==
    \/ \E f \in OptionalFiles \cup Range(docs) : ~Exists(f)
    \/ Exists(CiWorkflow) /\ \E j \in Range(required_jobs) : JobKey(j) \notin ci_content

\* the error entries that name a required element
RequiredErrors ==
    { <<"[x] Missing directory: ", d>> : d \in Range(required_dirs) }
    \cup { <<"[x] ", c, "/Cargo.toml missing">> : c \in Range(crates) }
    \cup { <<"[x] ", c, "/src/lib.rs missing">> : c \in Range(crates) }
    \cup { <<"[x] Missing example: ", e>> : e \in Range(required_examples) }
    \cup { <<"[x] Missing workspace member: ", m>> : m \in Range(required_members) }
    \cup { <<"[x] Root Cargo.toml missing">>, <<"[x] CI workflow missing">> }

-----------------------------------------------------------------------------
(* Properties *)

\* C1: when main has run all eight checks and the report and has exited, the
\* exit code is 1 exactly when the errors list is non-empty and 0 exactly when
\* it is empty, warnings or not.
C1_ExitCodeIffErrors ==
    (pc = "exited" /\ RanToReport) =>
        /\ (exit_code = 1 <=> Len(errors) > 0)
        /\ (exit_code = 0 <=> Len(errors) = 0)

C1_Witness ==
    /\ pc = "exited"
    /\ RanToReport
    /\ exit_code = 0
    /\ Len(warnings) > 0
    /\ Len(errors) = 0

\* C2: a call of check_cargo_build leaves the errors list as it was, raises
\* nothing, and appends exactly one entry: a success on exit code 0 and a
\* warning on every other outcome.
C2_CargoBuildNeverErrors ==
    LastCall = "check_cargo_build" =>
        /\ ~raised
        /\ errors = before.errors
        /\ IF build.kind = "exit0"
           THEN /\ Len(successes) = Len(before.successes) + 1
                /\ IsPrefix(before.successes, successes)
                /\ warnings = before.warnings
           ELSE /\ Len(warnings) = Len(before.warnings) + 1
                /\ IsPrefix(before.warnings, warnings)
                /\ successes = before.successes

C2_Witness ==
    /\ LastCall = "check_cargo_build"
    /\ build.kind = "nonzero"
    /\ ret = FALSE
    /\ Len(errors) = 0
    /\ Len(warnings) = 1

\* C3 (as claimed): every check returns TRUE exactly when that call itself
\* appended nothing to the errors list.
C3_ReturnsNoErrorsInThisCheck ==
    (LastCall \in Range(validations) /\ ~raised) =>
        (ret = TRUE <=> errors = before.errors)

\* C4: print_report decides on the two lists alone: FAILED and FALSE when
\* errors is non-empty, PASSED WITH WARNINGS and TRUE when only warnings is
\* non-empty, PASSED and TRUE when both are empty.
C4_VerdictFromLists ==
    LastCall = "print_report" =>
        /\ Len(before.errors) > 0 =>
              verdict = "VALIDATION FAILED" /\ ret = FALSE
        /\ (Len(before.errors) = 0 /\ Len(before.warnings) > 0) =>
              verdict = "VALIDATION PASSED WITH WARNINGS" /\ ret = TRUE
        /\ (Len(before.errors) = 0 /\ Len(before.warnings) = 0) =>
              verdict = "VALIDATION PASSED" /\ ret = TRUE

C4_Witness ==
    /\ LastCall = "print_report"
    /\ Len(before.errors) = 0
    /\ Len(before.warnings) > 0
    /\ verdict = "VALIDATION PASSED WITH WARNINGS"

\* C5: after a full run, every required element that is missing has its own
\* entry in the errors list (a member substring: of a root Cargo.toml that
\* exists), and with any of them missing the result is FAILED.
C5_MissingRequiredIsError ==
    RanToReport =>
        /\ \A d \in Range(required_dirs) :
              ~Exists(d) => <<"[x] Missing directory: ", d>> \in Range(errors)
        /\ \A c \in Range(crates) :
              /\ ~Exists(CrateCargoToml(c)) =>
                    <<"[x] ", c, "/Cargo.toml missing">> \in Range(errors)
              /\ ~Exists(CrateLibRs(c)) =>
                    <<"[x] ", c, "/src/lib.rs missing">> \in Range(errors)
        /\ \A e \in Range(required_examples) :
              ~Exists(ExamplePath(e)) =>
                    <<"[x] Missing example: ", e>> \in Range(errors)
        /\ ~Exists(RootCargoToml) => <<"[x] Root Cargo.toml missing">> \in Range(errors)
        /\ \A m \in Range(required_members) :
              (Exists(RootCargoToml) /\ m \notin cargo_content) =>
                    <<"[x] Missing workspace member: ", m>> \in Range(errors)
        /\ ~Exists(CiWorkflow) => <<"[x] CI workflow missing">> \in Range(errors)
        /\ ~AllRequiredPresent =>
              /\ verdict = "VALIDATION FAILED"
              /\ ret = FALSE
              /\ pc = "exited" => exit_code = 1

C5_Witness ==
    /\ RanToReport
    /\ pc = "exited"
    /\ ~Exists("tests")
    /\ Exists(RootCargoToml)
    /\ "services/api" \notin cargo_content

\* C6: with every required element present, a full run ends with an empty
\* errors list, run_all_validations returning TRUE and exit code 0, whatever
\* optional element is missing and whatever the build tool did.
C6_CompleteTreePasses ==
    (AllRequiredPresent /\ RanToReport) =>
        /\ errors = <<>>
        /\ ret = TRUE
        /\ verdict \in {"VALIDATION PASSED", "VALIDATION PASSED WITH WARNINGS"}
        /\ pc = "exited" => exit_code = 0

C6_Witness ==
    /\ AllRequiredPresent
    /\ RanToReport
    /\ pc = "exited"
    /\ build.kind = "nonzero"
    /\ ~Exists("Dockerfile")
    /\ ~Exists("README.md")

\* C7: after a full run every missing optional element has a warning, the
\* errors list holds entries of required elements only, and a tree with all
\* required elements and an optional one missing ends PASSED WITH WARNINGS
\* with exit code 0.
C7_MissingOptionalIsWarning ==
    RanToReport =>
        /\ \A f \in OptionalFiles :
              ~Exists(f) => <<"[!] ", f, " missing">> \in Range(warnings)
        /\ \A d \in Range(docs) :
              ~Exists(d) => <<"[!] Missing documentation: ", d>> \in Range(warnings)
        /\ \A j \in Range(required_jobs) :
              (Exists(CiWorkflow) /\ JobKey(j) \notin ci_content) =>
                    <<"[!] CI job missing: ", j>> \in Range(warnings)
        /\ Range(errors) \subseteq RequiredErrors
        /\ (AllRequiredPresent /\ SomeOptionalMissing) =>
              /\ errors = <<>>
              /\ verdict = "VALIDATION PASSED WITH WARNINGS"
              /\ ret = TRUE
              /\ pc = "exited" => exit_code = 0

C7_Witness ==
    /\ RanToReport
    /\ pc = "exited"
    /\ AllRequiredPresent
    /\ "clippy:" \notin ci_content
    /\ ~Exists(".dockerignore")
    /\ build.kind = "exit0"
    /\ verdict = "VALIDATION PASSED WITH WARNINGS"

\* C8: a second run on a newly constructed EggValidator, on the same tree and
\* with the same build outcome, ends with the three lists equal to those of
\* the run before it.
C8_RerunSameLists ==
    (pc = "caller" /\ first.valid /\ build = first.build) => Self = first.lists

C8_Witness ==
    /\ pc = "caller"
    /\ first.valid
    /\ build = first.build
    /\ build.kind = "nonzero"
    /\ Len(errors) > 0
    /\ Len(successes) > 0

\* C9: every call on one EggValidator (a check, print_report,
\* run_all_validations) keeps the former content of each list as a prefix of
\* its new content, and print_report changes no list.
C9_AppendOnly ==
    /\ IsPrefix(before.errors, errors)
    /\ IsPrefix(before.warnings, warnings)
    /\ IsPrefix(before.successes, successes)
    /\ LastCall = "print_report" => Self = before

C9_Witness ==
    /\ LastCall = "run_all_validations"
    /\ called = FullRun \o FullRun
    /\ Len(before.errors) > 0
    /\ Len(errors) = 2 * Len(before.errors)
    /\ Len(successes) = 2 * Len(before.successes)

\* C10: the checks are called in the order of the validations list, each
\* once, and print_report only after the eighth; the call returns only after
\* all nine, whatever the checks returned or recorded.
C10_FixedOrderNoShortCircuit ==
    /\ IsPrefix(called, FullRun)
    /\ verdict # "none" => RanToReport
    /\ pc = "returned" => RanToReport
    /\ (pc = "exited" /\ ~raised /\ Exists(Root)) => RanToReport

C10_Witness ==
    /\ RanToReport
    /\ ~Exists("crates/limit-core")
    /\ build.kind = "nonzero"
    /\ Len(errors) > 2

====
